---- MODULE Spec2Model ----
(***************************************************************************)
(* A model of BBsubtitle's core pipeline (src/main.py):                    *)
(*   parse_input_to_bvid -> get_view_info_by_bvid -> get_subtitle_list_*   *)
(*   -> whitelist / select_by_priority -> download_subtitle_plaintext,     *)
(* as driven by fetch_bilibili_subtitle_text, and of the SRT converter     *)
(* json_subtitle_to_srt with its time formatter fmt_time.                  *)
(*                                                                         *)
(* Python strings whose characters the code inspects (the user input, URLs *)
(* handed to the short-link GET, language codes, caption text) are         *)
(* sequences of one-character strings.  Strings the code only compares or  *)
(* passes on whole (track URLs, category names) are TLA+ strings.          *)
(***************************************************************************)
EXTENDS Integers, Sequences, FiniteSets, TLC

VARIABLES
    pc,             \* position inside fetch_bilibili_subtitle_text
    video_url,      \* argument video_url
    whitelist,      \* argument whitelist: [given, list]; given = FALSE is None
    lang_priority,  \* argument lang_priority: [given, list]
    candidate,      \* parse_input_to_bvid: user_input.strip()
    url,            \* parse_input_to_bvid: _normalize_url(candidate)
    bvid,           \* the resolver's return value
    subs,           \* the enumerated track list
    selected,       \* the selection
    picked,         \* the category select_by_priority reported ("" if none)
    mode,           \* the selection path taken: "none", "whitelist", "priority"
    result,         \* the returned dict: [returned, code, text, lang]
    escaped,        \* TRUE iff an exception left fetch_bilibili_subtitle_text
    fault,          \* what raised inside the try block ("" if nothing did)
    calls,          \* the HTTP requests issued so far, in order (endpoint names)
    get_urls,       \* the URLs handed to the short-link GET, in order
    downloads,      \* the track URLs whose payload was requested, in order
    responses,      \* what each list endpoint that returned has answered, in order
    swallowed,      \* TRUE iff `except Exception: pass` of the resolver ran
    body,           \* json_subtitle_to_srt: its argument
    srt_lines,      \* json_subtitle_to_srt: the list `lines`
    srt,            \* json_subtitle_to_srt: [returned, text]
    t,              \* fmt_time: its argument, in ticks of 1/TicksPerSec s
    stamp           \* fmt_time: [returned, text]

pipeVars == <<pc, video_url, whitelist, lang_priority, candidate, url, bvid,
              subs, selected, picked, mode, result, escaped, fault, calls,
              get_urls, downloads, responses, swallowed>>
srtVars == <<body, srt_lines, srt>>
timeVars == <<t, stamp>>
vars == <<pipeVars, srtVars, timeVars>>

-----------------------------------------------------------------------------
(* Python str primitives on sequences of characters.                       *)

Digits == {"0", "1", "2", "3", "4", "5", "6", "7", "8", "9"}
UpperLetters == {"A", "B", "C", "D", "E", "F", "G", "H", "I", "J", "K", "L", "M",
                 "N", "O", "P", "Q", "R", "S", "T", "U", "V", "W", "X", "Y", "Z"}
LowerLetters == {"a", "b", "c", "d", "e", "f", "g", "h", "i", "j", "k", "l", "m",
                 "n", "o", "p", "q", "r", "s", "t", "u", "v", "w", "x", "y", "z"}
Letters == UpperLetters \cup LowerLetters
\* the character class [0-9A-Za-z]
Alnum == Digits \cup Letters
\* the characters str.strip() removes (those the inputs of the model use)
Whitespace == {" ", "\t", "\n"}

\* str.lower() on one character
LowerChar(c) ==
    CASE c = "A" -> "a" [] c = "B" -> "b" [] c = "C" -> "c" [] c = "D" -> "d"
      [] c = "E" -> "e" [] c = "F" -> "f" [] c = "G" -> "g" [] c = "H" -> "h"
      [] c = "I" -> "i" [] c = "J" -> "j" [] c = "K" -> "k" [] c = "L" -> "l"
      [] c = "M" -> "m" [] c = "N" -> "n" [] c = "O" -> "o" [] c = "P" -> "p"
      [] c = "Q" -> "q" [] c = "R" -> "r" [] c = "S" -> "s" [] c = "T" -> "t"
      [] c = "U" -> "u" [] c = "V" -> "v" [] c = "W" -> "w" [] c = "X" -> "x"
      [] c = "Y" -> "y" [] c = "Z" -> "z" [] OTHER -> c

\* str.lower()
Lower(s) == [i \in 1..Len(s) |-> LowerChar(s[i])]

\* s.startswith(p)
StartsWith(s, p) == Len(p) <= Len(s) /\ SubSeq(s, 1, Len(p)) = p

\* s.endswith(p)
EndsWith(s, p) == Len(p) <= Len(s) /\ SubSeq(s, Len(s) - Len(p) + 1, Len(s)) = p

\* d in s (substring test)
Contains(s, d) ==
    \E i \in 1..(Len(s) - Len(d) + 1) : SubSeq(s, i, i + Len(d) - 1) = d

\* s.strip()
Strip(s) ==
    LET keep == {i \in 1..Len(s) : s[i] \notin Whitespace}
    IN  IF keep = {} THEN <<>>
        ELSE LET lo == CHOOSE i \in keep : \A j \in keep : i <= j
                 hi == CHOOSE i \in keep : \A j \in keep : j <= i
             IN  SubSeq(s, lo, hi)

\* "sep".join(parts)
RECURSIVE Join(_, _)
Join(parts, sep) ==
    IF parts = <<>> THEN <<>>
    ELSE IF Len(parts) = 1 THEN parts[1]
    ELSE parts[1] \o sep \o Join(Tail(parts), sep)

\* str(n) for n >= 0
RECURSIVE IntToStr(_)
IntToStr(n) ==
    LET d == <<"0", "1", "2", "3", "4", "5", "6", "7", "8", "9">>
    IN  IF n < 10 THEN <<d[n + 1]>>
        ELSE IntToStr(n \div 10) \o <<d[(n % 10) + 1]>>

\* f"{n:0<w>d}" for n >= 0: at least w digits, zero-padded on the left
RECURSIVE ZeroPad(_, _)
ZeroPad(s, w) == IF Len(s) >= w THEN s ELSE ZeroPad(<<"0">> \o s, w)

-----------------------------------------------------------------------------
(* Reference Resolver: _normalize_url and parse_input_to_bvid.             *)

\* re.search(r"BV[0-9A-Za-z]+", s): the start positions of a match
BvStarts(s) ==
    {i \in 1..(Len(s) - 2) : s[i] = "B" /\ s[i + 1] = "V" /\ s[i + 2] \in Alnum}

\* bool(re.search(r"BV[0-9A-Za-z]+", s))
HasBv(s) == BvStarts(s) # {}

\* re.search(...).group(0): the leftmost match, extended greedily
BvMatch(s) ==
    LET i == CHOOSE k \in BvStarts(s) : \A j \in BvStarts(s) : k <= j
        ends == {e \in (i + 2)..Len(s) : \A k \in (i + 2)..e : s[k] \in Alnum}
        e == CHOOSE m \in ends : \A n \in ends : n <= m
    IN  SubSeq(s, i, e)

\* re.match(r"^[a-zA-Z][a-zA-Z0-9+.-]*://", s)
HasScheme(s) ==
    \E k \in 1..(Len(s) - 3) :
        /\ s[1] \in Letters
        /\ \A j \in 2..k : s[j] \in Alnum \cup {"+", ".", "-"}
        /\ SubSeq(s, k + 1, k + 3) = <<":", "/", "/">>

\* the alternatives of the second pattern of _normalize_url
BareLinkDomains ==
    { <<"b", "2", "3", ".", "t", "v">>,
      <<"a", "c", "g", ".", "t", "v">>,
      <<"b", "i", "l", "i", "2", "2", "3", "3", ".", "c", "n">>,
      <<"b", "i", "l", "i", "2", "2", "3", "3", ".", "c", "o", "m">>,
      <<"b", "i", "l", "i", ".", "t", "v">>,
      <<"b", "i", "l", "i", ".", "c", "o", "m">> }

\* re.match(r"^(b23\.tv|...|bili\.(?:tv|com))/", s, re.IGNORECASE)
LooksLikeBareLink(s) ==
    \E d \in BareLinkDomains : StartsWith(Lower(s), d \o <<"/">>)

HttpsPrefix == <<"h", "t", "t", "p", "s", ":", "/", "/">>

_normalize_url(u) ==
    LET s == Strip(u)
    IN  IF HasScheme(s) THEN s
        ELSE IF LooksLikeBareLink(s) THEN HttpsPrefix \o s
        ELSE s

\* short_domains of parse_input_to_bvid
short_domains ==
    { <<"b", "2", "3", ".", "t", "v">>,
      <<"a", "c", "g", ".", "t", "v">>,
      <<"b", "i", "l", "i", "2", "2", "3", "3", ".", "c", "n">>,
      <<"b", "i", "l", "i", "2", "2", "3", "3", ".", "c", "o", "m">> }

\* any(d in candidate for d in short_domains)
IsShortLink(c) == \E d \in short_domains : Contains(c, d)

\* What requests.get does with the URL of the short-link request: only an
\* http:// or https:// URL is sent; anything else raises before any traffic.
GetCanSucceed(u) ==
    \/ StartsWith(Lower(u), <<"h", "t", "t", "p", ":", "/", "/">>)
    \/ StartsWith(Lower(u), HttpsPrefix)

\* resp.url values of the short-link request (<<>>: resp.url is empty)
FinalUrls ==
    { <<>>,
      HttpsPrefix \o <<"b", ".", "c", "n", "/", "B", "V", "1", "x", "x", "4",
                       "?", "p", "=", "1">> }

-----------------------------------------------------------------------------
(* The values of the pipeline.                                             *)

NoText == <<>>

\* the dict fetch_bilibili_subtitle_text returns
Ret(code, text, lang) ==
    [returned |-> TRUE, code |-> code, text |-> text, lang |-> lang]

\* no value returned (yet)
NoResult == [returned |-> FALSE, code |-> -1, text |-> NoText, lang |-> NoText]

\* a plausible slip: no try/except around the pipeline, the exception leaves
Uncaught == [result |-> NoResult, escaped |-> TRUE]

\* except Exception as e: return {"code": 99, ..., "text": "", "lang": ""}
Caught == [result |-> Ret(99, NoText, NoText), escaped |-> FALSE]

\* Python truthiness of an optional list argument: None and [] are falsy
Truthy(arg) == arg.given /\ arg.list # <<>>

\* what a list endpoint answered: the entries of data.subtitle.subtitles when
\* the envelope's code is 0 (ok), none when it is not
Answer(ep, ok, items) == [ep |-> ep, ok |-> ok, items |-> items]

\* an optional list argument that was not passed (None)
NotGiven == [given |-> FALSE, list |-> <<>>]

Given(l) == [given |-> TRUE, list |-> l]

-----------------------------------------------------------------------------
(* Subtitle Track Enumerator: the normalisation loops of the three         *)
(* get_subtitle_list_* functions.  A raw item is one element of            *)
(* data.subtitle.subtitles: [url, subtitle_url, lan, lang_key], where ""   *)
(* and <<>> stand for a missing, null or empty field (all falsy for `or`). *)

\* a or b on track URLs
OrUrl(a, b) == IF a # "" THEN a ELSE b

\* a or b on language codes
OrLan(a, b) == IF a # <<>> THEN a ELSE b

\* one round of the loop of get_subtitle_list_web / get_subtitle_list_player_v2:
\* url = it.get("url") or it.get("subtitle_url"); appended only if url
WebTrack(it) ==
    LET u == OrUrl(it.url, it.subtitle_url)
    IN  IF u # "" THEN <<[lan |-> OrLan(it.lan, it.lang_key), url |-> u]>>
        ELSE <<>>

\* one round of the loop of get_subtitle_list_app_dmview_json:
\* url = it.get("subtitle_url") or it.get("url")
DmviewTrack(it) ==
    LET u == OrUrl(it.subtitle_url, it.url)
    IN  IF u # "" THEN <<[lan |-> OrLan(it.lan, it.lang_key), url |-> u]>>
        ELSE <<>>

RECURSIVE NormalizeWeb(_)
NormalizeWeb(items) ==
    IF items = <<>> THEN <<>>
    ELSE WebTrack(Head(items)) \o NormalizeWeb(Tail(items))

RECURSIVE NormalizeDmview(_)
NormalizeDmview(items) ==
    IF items = <<>> THEN <<>>
    ELSE DmviewTrack(Head(items)) \o NormalizeDmview(Tail(items))

-----------------------------------------------------------------------------
(* Track Selector.                                                         *)

Categories == {"en", "zh", "other"}

categorize_language(lan_key) ==
    LET l == Lower(lan_key)
    IN  IF \/ StartsWith(l, <<"a", "i", "-", "e", "n">>)
           \/ l = <<"e", "n">>
           \/ StartsWith(l, <<"e", "n", "-">>)
        THEN "en"
        ELSE IF \/ StartsWith(l, <<"a", "i", "-", "z", "h">>)
                \/ l = <<"z", "h">>
                \/ StartsWith(l, <<"z", "h", "-">>)
        THEN "zh"
        ELSE "other"

\* buckets[c] after the first loop of select_by_priority
Bucket(tracks, c) ==
    SelectSeq(tracks, LAMBDA it : categorize_language(it.lan) = c)

\* a plausible slip: the buckets of the priority order are merged
RECURSIVE SelectMerged(_, _)
SelectMerged(tracks, priority) ==
    IF priority = <<>> THEN <<<<>>, "">>
    ELSE LET p == Head(priority)
             rest == SelectMerged(tracks, Tail(priority))
             mine == IF p \in Categories THEN Bucket(tracks, p) ELSE <<>>
         IN  IF mine # <<>> THEN <<mine \o rest[1], p>> ELSE rest

\* select_by_priority: <<selection, picked category>>; buckets.get(p) is
\* None for a p that names no bucket
RECURSIVE select_by_priority(_, _)
select_by_priority(tracks, priority) ==
    IF priority = <<>> THEN <<<<>>, "">>
    ELSE LET p == Head(priority)
         IN  IF p \in Categories /\ Bucket(tracks, p) # <<>>
             THEN <<Bucket(tracks, p), p>>
             ELSE select_by_priority(tracks, Tail(priority))

\* lan == w or (lan.startswith(w) and w.endswith("-"))
WhitelistEntryMatches(lan, w) ==
    lan = w \/ (StartsWith(lan, w) /\ EndsWith(w, <<"-">>))

\* the whitelist loop of fetch_bilibili_subtitle_text
WhitelistFilter(tracks, wl) ==
    SelectSeq(tracks,
              LAMBDA it : \E k \in 1..Len(wl) : WhitelistEntryMatches(it.lan, wl[k]))

\* lang_priority or ["en", "zh", "other"]
DefaultPriority == <<"en", "zh", "other">>

\* a plausible slip: no default order when lang_priority is None or empty
EffectivePriorityNoDefault(arg) == arg.list

EffectivePriority(arg) == IF Truthy(arg) THEN arg.list ELSE DefaultPriority

-----------------------------------------------------------------------------
(* Payload Fetcher & Converter.  A caption entry is [from, to, content];   *)
(* times are in ticks of 1/TicksPerSec second; content <<>> also stands    *)
(* for a missing or null content field.                                    *)

\* (item.get("content") or "").strip() of every entry, blanks dropped
RECURSIVE PlainParts(_)
PlainParts(b) ==
    IF b = <<>> THEN <<>>
    ELSE LET content == Strip(Head(b).content)
         IN  (IF content # <<>> THEN <<content>> ELSE <<>>) \o PlainParts(Tail(b))

subtitle_json_to_plaintext(b) == Join(PlainParts(b), <<"\n">>)

-----------------------------------------------------------------------------
(* Bounds and the inputs drawn within them.                                *)

\* most blanks around a user input
MaxPad == 1
\* most entries in one endpoint's subtitle list
MaxTracks == 2

RECURSIVE Spaces(_)
Spaces(k) == IF k = 0 THEN <<>> ELSE <<" ">> \o Spaces(k - 1)

SeqsUpTo(S, n) == UNION {[1..k -> S] : k \in 0..n}

BiliVideoUrl ==
    HttpsPrefix \o <<"w", "w", "w", ".", "b", "i", "l", "i", "b", "i", "l", "i",
                     ".", "c", "o", "m", "/", "v", "i", "d", "e", "o", "/",
                     "B", "V", "1", "x", "x", "4", "1", "1", "c", "7", "m", "D">>

InputPrefixes ==
    { <<>>, HttpsPrefix, <<"h", "t", "t", "p", ":", "/", "/">>,
      <<"w", "w", "w", ".">> }

InputDomains ==
    short_domains \cup
    { <<"B", "2", "3", ".", "T", "V">>,
      <<"b", "i", "l", "i", ".", "t", "v">>,
      <<"x", ".", "c", "o">> }

InputPaths ==
    { <<>>, <<"/">>, <<"/", "a", "b", "c">>, <<"/", "B", "V">>,
      <<"/", "B", "V", "-", "B", "V", "1", "x", "?", "p", "=", "B", "V", "2">> }

\* the user inputs of the resolver
ResolverInputs ==
    { Spaces(l) \o pre \o d \o path \o Spaces(r) :
        l \in 0..MaxPad, r \in 0..MaxPad,
        pre \in InputPrefixes, d \in InputDomains, path \in InputPaths }
    \cup { BiliVideoUrl, Spaces(MaxPad) \o BiliVideoUrl }

\* the user inputs of the whole pipeline: a bare id and a short link
PipelineInputs ==
    { <<"B", "V", "1", "x">>,
      HttpsPrefix \o <<"b", "2", "3", ".", "t", "v", "/", "a">> }

Lan_en == <<"e", "n">>
Lan_enUS == <<"e", "n", "-", "U", "S">>
Lan_AIzh == <<"A", "I", "-", "z", "h">>

\* the entries an endpoint may list
RawItems ==
    { [url |-> "u1", subtitle_url |-> "u2", lan |-> Lan_enUS, lang_key |-> Lan_en],
      [url |-> "", subtitle_url |-> "u3", lan |-> <<>>, lang_key |-> Lan_AIzh],
      [url |-> "", subtitle_url |-> "", lan |-> Lan_en, lang_key |-> <<>>],
      [url |-> "u4", subtitle_url |-> "", lan |-> <<"e", "n", "g">>,
       lang_key |-> <<>>] }

TrackLists == SeqsUpTo(RawItems, MaxTracks)

WhitelistArgs ==
    { NotGiven, Given(<<>>), Given(<<Lan_en>>), Given(<<<<"e", "n", "-">>>>),
      Given(<<Lan_AIzh, Lan_enUS>>), Given(<<Lan_enUS, Lan_AIzh>>) }

PriorityArgs ==
    { NotGiven, Given(<<>>), Given(<<"zh", "en", "other">>), Given(<<"zh">>),
      Given(<<"fr", "other">>) }

\* the (whitelist, lang_priority) pairs of a call
Requests ==
    (WhitelistArgs \X {NotGiven})
    \cup ({NotGiven} \X PriorityArgs)
    \cup { <<Given(<<>>), Given(<<"zh">>)>>,
           <<Given(<<<<"e", "n", "-">>>>), Given(<<"zh">>)>> }

\* the `body` array a payload URL may serve
PayloadBodies ==
    { <<[from |-> 0, to |-> 1, content |-> <<" ", "h", "i", " ">>],
        [from |-> 1, to |-> 2, content |-> <<" ">>],
        [from |-> 2, to |-> 3, content |-> <<"y", "o">>]>> }

-----------------------------------------------------------------------------
(* fetch_bilibili_subtitle_text, one action per stretch of code between    *)
(* two HTTP requests.                                                      *)

PipeInit(inputs, requests) ==
    /\ pc = "start"
    /\ video_url \in inputs
    /\ \E rq \in requests : whitelist = rq[1] /\ lang_priority = rq[2]
    /\ candidate = <<>>
    /\ url = <<>>
    /\ bvid = <<>>
    /\ subs = <<>>
    /\ selected = <<>>
    /\ picked = ""
    /\ mode = "none"
    /\ result = NoResult
    /\ escaped = FALSE
    /\ fault = ""
    /\ calls = <<>>
    /\ get_urls = <<>>
    /\ downloads = <<>>
    /\ responses = <<>>
    /\ swallowed = FALSE

PipeIdle ==
    /\ pc = "idle"
    /\ video_url = <<>>
    /\ whitelist = NotGiven
    /\ lang_priority = NotGiven
    /\ candidate = <<>>
    /\ url = <<>>
    /\ bvid = <<>>
    /\ subs = <<>>
    /\ selected = <<>>
    /\ picked = ""
    /\ mode = "none"
    /\ result = NoResult
    /\ escaped = FALSE
    /\ fault = ""
    /\ calls = <<>>
    /\ get_urls = <<>>
    /\ downloads = <<>>
    /\ responses = <<>>
    /\ swallowed = FALSE

\* an exception reaches the try block of fetch_bilibili_subtitle_text
Raise(what) ==
    /\ fault' = what
    /\ result' = Caught.result
    /\ escaped' = Caught.escaped
    /\ pc' = "done"

\* return {"code": code, ...}
Return(code, text, lang) ==
    /\ result' = Ret(code, text, lang)
    /\ escaped' = FALSE
    /\ fault' = fault
    /\ pc' = "done"

\* a plausible slip: the short-link branch is tried before the BV search
ParseInputShortFirst ==
    /\ pc = "start"
    /\ candidate' = Strip(video_url)
    /\ IF IsShortLink(candidate')
       THEN /\ url' = _normalize_url(candidate')
            /\ pc' = "short_get"
            /\ bvid' = bvid
       ELSE /\ bvid' = IF HasBv(video_url) THEN BvMatch(video_url) ELSE candidate'
            /\ pc' = "view"
            /\ url' = url
    /\ UNCHANGED <<video_url, whitelist, lang_priority, subs, selected, picked,
                   mode, result, escaped, fault, calls, get_urls, downloads>>
    /\ UNCHANGED <<responses, swallowed, srtVars, timeVars>>

\* parse_input_to_bvid up to its return or its requests.get
ParseInput ==
    /\ pc = "start"
    /\ IF HasBv(video_url)
       THEN /\ bvid' = BvMatch(video_url)
            /\ pc' = "view"
            /\ UNCHANGED <<candidate, url>>
       ELSE /\ candidate' = Strip(video_url)
            /\ IF IsShortLink(candidate')
               THEN /\ url' = _normalize_url(candidate')
                    /\ pc' = "short_get"
                    /\ bvid' = bvid
               ELSE /\ bvid' = candidate'
                    /\ pc' = "view"
                    /\ url' = url
    /\ UNCHANGED <<video_url, whitelist, lang_priority, subs, selected, picked,
                   mode, result, escaped, fault, calls, get_urls, downloads>>
    /\ UNCHANGED <<responses, swallowed, srtVars, timeVars>>

\* requests.get(url, ...) of parse_input_to_bvid and what follows it
ShortLinkGet ==
    /\ pc = "short_get"
    /\ calls' = Append(calls, "short_link")
    /\ get_urls' = Append(get_urls, url)
    /\ \/ /\ bvid' = candidate                    \* the GET raised: pass
          /\ swallowed' = TRUE
       \/ /\ GetCanSucceed(url)
          /\ swallowed' = swallowed
          /\ \E resp_url \in FinalUrls :
                LET final_url == IF resp_url # <<>> THEN resp_url ELSE url
                IN  bvid' = IF HasBv(final_url) THEN BvMatch(final_url)
                            ELSE candidate
    /\ pc' = "view"
    /\ UNCHANGED <<video_url, whitelist, lang_priority, candidate, url, subs,
                   selected, picked, mode, result, escaped, fault, downloads>>
    /\ UNCHANGED <<responses, srtVars, timeVars>>

\* get_view_info_by_bvid, then int(view["aid"]), int(view["cid"]).  The two
\* ids only travel on as request parameters and are not modelled.
GetViewInfo ==
    /\ pc = "view"
    /\ calls' = Append(calls, "view")
    /\ \/ Raise("view: transport")      \* raise_for_status, timeout
       \/ Raise("view: service")        \* code != 0: RuntimeError
       \/ Raise("view: malformed")      \* no aid or cid in data
       \/ /\ pc' = "web"
          /\ UNCHANGED <<result, escaped, fault>>
    /\ UNCHANGED <<video_url, whitelist, lang_priority, candidate, url, bvid,
                   subs, selected, picked, mode, get_urls, downloads>>
    /\ UNCHANGED <<responses, swallowed, srtVars, timeVars>>

\* a plausible slip: endpoint (a) is asked and (b) is asked whatever it listed
ListWebThenAlwaysV2 ==
    /\ pc = "web"
    /\ calls' = Append(calls, "web")
    /\ \/ Raise("web: transport") /\ subs' = subs /\ responses' = responses
       \/ Raise("web: service") /\ subs' = subs /\ responses' = responses
       \/ \E items \in TrackLists :
            /\ responses' = Append(responses, Answer("web", TRUE, items))
            /\ subs' = NormalizeWeb(items)
            /\ pc' = "v2"
            /\ UNCHANGED <<result, escaped, fault>>
    /\ UNCHANGED <<video_url, whitelist, lang_priority, candidate, url, bvid,
                   selected, picked, mode, get_urls, downloads>>
    /\ UNCHANGED <<swallowed, srtVars, timeVars>>

\* subs = get_subtitle_list_web(aid, cid); if not subs: ...
ListWeb ==
    /\ pc = "web"
    /\ calls' = Append(calls, "web")
    /\ \/ Raise("web: transport") /\ subs' = subs /\ responses' = responses   \* raise_for_status, timeout
       \/ Raise("web: service") /\ subs' = subs /\ responses' = responses     \* code != 0: RuntimeError
       \/ \E items \in TrackLists :
            /\ responses' = Append(responses, Answer("web", TRUE, items))
            /\ subs' = NormalizeWeb(items)
            /\ pc' = IF subs' = <<>> THEN "v2" ELSE "select"
            /\ UNCHANGED <<result, escaped, fault>>
    /\ UNCHANGED <<video_url, whitelist, lang_priority, candidate, url, bvid,
                   selected, picked, mode, get_urls, downloads>>
    /\ UNCHANGED <<swallowed, srtVars, timeVars>>

\* subs = get_subtitle_list_player_v2(aid, cid); if not subs: ...
ListV2 ==
    /\ pc = "v2"
    /\ calls' = Append(calls, "v2")
    /\ \/ Raise("v2: transport") /\ subs' = subs /\ responses' = responses    \* raise_for_status, timeout
       \/ /\ subs' = <<>>           \* code != 0: return []
          /\ responses' = Append(responses, Answer("v2", FALSE, <<>>))
          /\ pc' = "dmview"
          /\ UNCHANGED <<result, escaped, fault>>
       \/ \E items \in TrackLists :
            /\ responses' = Append(responses, Answer("v2", TRUE, items))
            /\ subs' = NormalizeWeb(items)
            /\ pc' = IF subs' = <<>> THEN "dmview" ELSE "select"
            /\ UNCHANGED <<result, escaped, fault>>
    /\ UNCHANGED <<video_url, whitelist, lang_priority, candidate, url, bvid,
                   selected, picked, mode, get_urls, downloads>>
    /\ UNCHANGED <<swallowed, srtVars, timeVars>>

\* subs = get_subtitle_list_app_dmview_json(cid)
ListDmview ==
    /\ pc = "dmview"
    /\ calls' = Append(calls, "dmview")
    /\ \/ Raise("dmview: transport") /\ subs' = subs /\ responses' = responses   \* raise_for_status, timeout
       \/ /\ subs' = <<>>           \* code != 0: return []
          /\ responses' = Append(responses, Answer("dmview", FALSE, <<>>))
          /\ pc' = "select"
          /\ UNCHANGED <<result, escaped, fault>>
       \/ \E items \in TrackLists :
            /\ responses' = Append(responses, Answer("dmview", TRUE, items))
            /\ subs' = NormalizeDmview(items)
            /\ pc' = "select"
            /\ UNCHANGED <<result, escaped, fault>>
    /\ UNCHANGED <<video_url, whitelist, lang_priority, candidate, url, bvid,
                   selected, picked, mode, get_urls, downloads>>
    /\ UNCHANGED <<swallowed, srtVars, timeVars>>

\* a plausible slip: an unmatched whitelist falls through to the priority order
SelectFallThrough ==
    /\ pc = "select"
    /\ IF subs = <<>>
       THEN /\ Return(1, NoText, NoText)
            /\ UNCHANGED <<selected, picked, mode>>
       ELSE LET wsel == IF Truthy(whitelist)
                        THEN WhitelistFilter(subs, whitelist.list) ELSE <<>>
                sp == select_by_priority(subs, EffectivePriority(lang_priority))
            IN  IF wsel # <<>>
                THEN /\ selected' = wsel
                     /\ mode' = "whitelist"
                     /\ pc' = "download"
                     /\ UNCHANGED <<picked, result, escaped, fault>>
                ELSE IF sp[1] = <<>>
                THEN /\ Return(3, NoText, NoText)
                     /\ selected' = sp[1]
                     /\ picked' = sp[2]
                     /\ mode' = "priority"
                ELSE /\ selected' = sp[1]
                     /\ picked' = sp[2]
                     /\ mode' = "priority"
                     /\ pc' = "download"
                     /\ UNCHANGED <<result, escaped, fault>>
    /\ UNCHANGED <<video_url, whitelist, lang_priority, candidate, url, bvid,
                   subs, calls, get_urls, downloads>>
    /\ UNCHANGED <<responses, swallowed, srtVars, timeVars>>

\* from `if not subs: return code 1` to `pick = selected[0]`
Select ==
    /\ pc = "select"
    /\ IF subs = <<>>
       THEN /\ Return(1, NoText, NoText)
            /\ UNCHANGED <<selected, picked, mode>>
       ELSE LET wsel == IF Truthy(whitelist)
                        THEN WhitelistFilter(subs, whitelist.list) ELSE <<>>
                sp == select_by_priority(subs, EffectivePriority(lang_priority))
            IN  IF Truthy(whitelist) /\ wsel = <<>>
                THEN /\ Return(2, NoText, NoText)
                     /\ mode' = "whitelist"
                     /\ UNCHANGED <<selected, picked>>
                ELSE IF wsel # <<>>
                THEN /\ selected' = wsel
                     /\ mode' = "whitelist"
                     /\ pc' = "download"
                     /\ UNCHANGED <<picked, result, escaped, fault>>
                ELSE IF sp[1] = <<>>
                THEN /\ Return(3, NoText, NoText)
                     /\ selected' = sp[1]
                     /\ picked' = sp[2]
                     /\ mode' = "priority"
                ELSE /\ selected' = sp[1]
                     /\ picked' = sp[2]
                     /\ mode' = "priority"
                     /\ pc' = "download"
                     /\ UNCHANGED <<result, escaped, fault>>
    /\ UNCHANGED <<video_url, whitelist, lang_priority, candidate, url, bvid,
                   subs, calls, get_urls, downloads>>
    /\ UNCHANGED <<responses, swallowed, srtVars, timeVars>>

\* a plausible slip: every selected track is downloaded and the texts joined
DownloadAll ==
    /\ pc = "download"
    /\ calls' = calls \o [i \in 1..Len(selected) |-> "payload"]
    /\ downloads' = downloads \o [i \in 1..Len(selected) |-> selected[i].url]
    /\ \/ Raise("payload: transport")
       \/ \E b \in PayloadBodies :
            Return(0, subtitle_json_to_plaintext(b), selected[1].lan)
    /\ UNCHANGED <<video_url, whitelist, lang_priority, candidate, url, bvid,
                   subs, selected, picked, mode, get_urls>>
    /\ UNCHANGED <<responses, swallowed, srtVars, timeVars>>

\* pick = selected[0]; text = download_subtitle_plaintext(pick["url"]); return
Download ==
    /\ pc = "download"
    /\ LET pick == selected[1]
       IN  /\ calls' = Append(calls, "payload")
           /\ downloads' = Append(downloads, pick.url)
           /\ \/ Raise("payload: transport")   \* raise_for_status, timeout, not JSON
              \/ \E b \in PayloadBodies :
                    Return(0, subtitle_json_to_plaintext(b), pick.lan)
    /\ UNCHANGED <<video_url, whitelist, lang_priority, candidate, url, bvid,
                   subs, selected, picked, mode, get_urls>>
    /\ UNCHANGED <<responses, swallowed, srtVars, timeVars>>

-----------------------------------------------------------------------------
(* json_subtitle_to_srt and its fmt_time.  A float number of seconds is an *)
(* integer number of ticks of 1/TicksPerSec second; with TicksPerSec a     *)
(* power of two every such time, its fraction and fraction * 1000 are      *)
(* exact in binary floating point, so the arithmetic below is the code's.  *)

TicksPerSec == 2048

\* most entries in a caption body
MaxBody == 3
\* most whole hours in a formatted time
MaxHours == 1

\* Python 3 round(n / d) for n >= 0, d > 0: to nearest, ties to even
RoundHalfEven(n, d) ==
    LET q == n \div d
        r == n % d
    IN  IF 2 * r < d THEN q
        ELSE IF 2 * r > d THEN q + 1
        ELSE IF q % 2 = 0 THEN q ELSE q + 1

\* fmt_time(t) for t >= 0, where int(t) is the floor
fmt_time(tk) ==
    LET whole == tk \div TicksPerSec
        ms == RoundHalfEven((tk % TicksPerSec) * 1000, TicksPerSec)
        sec == whole % 60
        minutes == (whole \div 60) % 60
        hours == whole \div 3600
    IN  ZeroPad(IntToStr(hours), 2) \o <<":">>
        \o ZeroPad(IntToStr(minutes), 2) \o <<":">>
        \o ZeroPad(IntToStr(sec), 2) \o <<",">>
        \o ZeroPad(IntToStr(ms), 3)

\* a plausible slip: index += 1 sits before the blank-text `continue`
RECURSIVE SrtLinesCountingBlanks(_, _)
SrtLinesCountingBlanks(b, index) ==
    IF b = <<>> THEN <<>>
    ELSE LET item == Head(b)
             content == Strip(item.content)
         IN  IF content = <<>> THEN SrtLinesCountingBlanks(Tail(b), index + 1)
             ELSE << IntToStr(index),
                     fmt_time(item.from) \o <<" ", "-", "-", ">", " ">>
                        \o fmt_time(item.to),
                     content,
                     <<>> >>
                  \o SrtLinesCountingBlanks(Tail(b), index + 1)

\* the loop of json_subtitle_to_srt from entry b[1] on, with `index` as given
RECURSIVE SrtLines(_, _)
SrtLines(b, index) ==
    IF b = <<>> THEN <<>>
    ELSE LET item == Head(b)
             content == Strip(item.content)
         IN  IF content = <<>> THEN SrtLines(Tail(b), index)
             ELSE << IntToStr(index),
                     fmt_time(item.from) \o <<" ", "-", "-", ">", " ">>
                        \o fmt_time(item.to),
                     content,
                     <<>> >>
                  \o SrtLines(Tail(b), index + 1)

\* the caption texts of the SRT inputs
SrtContents == { <<>>, <<" ">>, <<"a">>, <<" ", "b", "\t">> }

\* the (from, to) pairs of the SRT inputs, in ticks
SrtSpans ==
    { <<0, TicksPerSec + (TicksPerSec \div 2)>>,
      <<3725 * TicksPerSec + (TicksPerSec \div 4), 3726 * TicksPerSec>> }

SrtEntries ==
    { [from |-> sp[1], to |-> sp[2], content |-> c] :
        sp \in SrtSpans, c \in SrtContents }

SrtBodies == SeqsUpTo(SrtEntries, MaxBody)

SrtInit ==
    /\ body \in SrtBodies
    /\ srt_lines = <<>>
    /\ srt = [returned |-> FALSE, text |-> NoText]

SrtIdle ==
    /\ body = <<>>
    /\ srt_lines = <<>>
    /\ srt = [returned |-> TRUE, text |-> NoText]

\* json_subtitle_to_srt(body)
ConvertSrt ==
    /\ ~srt.returned
    /\ srt_lines' = SrtLines(body, 1)
    /\ srt' = [returned |-> TRUE, text |-> Join(srt_lines', <<"\n">>)]
    /\ UNCHANGED <<body, pipeVars, timeVars>>

\* the whole seconds of the fmt_time inputs
WholeSeconds ==
    { h * 3600 + m * 60 + sec : h \in 0..MaxHours, m \in {0, 2, 59},
                                sec \in {0, 5, 59} }

\* the fmt_time inputs, in ticks: every fraction of every whole second
TimeInputs ==
    { w * TicksPerSec + f : w \in WholeSeconds, f \in 0..(TicksPerSec - 1) }

TimeInit ==
    /\ t \in TimeInputs
    /\ stamp = [returned |-> FALSE, text |-> NoText]

TimeIdle ==
    /\ t = 0
    /\ stamp = [returned |-> TRUE, text |-> NoText]

\* fmt_time(t)
FormatTime ==
    /\ ~stamp.returned
    /\ stamp' = [returned |-> TRUE, text |-> fmt_time(t)]
    /\ UNCHANGED <<t, pipeVars, srtVars>>

-----------------------------------------------------------------------------
(* Specifications.                                                         *)

\* one call of fetch_bilibili_subtitle_text
Init == PipeInit(PipelineInputs, Requests) /\ SrtIdle /\ TimeIdle

Next ==
    \/ ParseInput
    \/ ShortLinkGet
    \/ GetViewInfo
    \/ ListWeb
    \/ ListV2
    \/ ListDmview
    \/ Select
    \/ Download

Spec == Init /\ [][Next]_vars

\* one call of parse_input_to_bvid
InitResolver ==
    PipeInit(ResolverInputs, {<<NotGiven, NotGiven>>}) /\ SrtIdle /\ TimeIdle

NextResolver == ParseInput \/ ShortLinkGet

SpecResolver == InitResolver /\ [][NextResolver]_vars

\* one call of json_subtitle_to_srt
InitSrt == PipeIdle /\ SrtInit /\ TimeIdle

NextSrt == ConvertSrt

SpecSrt == InitSrt /\ [][NextSrt]_vars

\* one call of fmt_time
InitTime == PipeIdle /\ SrtIdle /\ TimeInit

NextTime == FormatTime

SpecTime == InitTime /\ [][NextTime]_vars

-----------------------------------------------------------------------------
(* Properties.                                                             *)

ListEndpoints == <<"web", "v2", "dmview">>

\* the list endpoints requested so far, in order
ListCalls == SelectSeq(calls, LAMBDA c : c \in {"web", "v2", "dmview"})

\* the entries of an answer that carry a URL in either field
Usable(ans) ==
    SelectSeq(ans.items, LAMBDA it : it.url # "" \/ it.subtitle_url # "")

\* the k-th smallest element of a set of numbers
KthOf(idx, k) == CHOOSE i \in idx : Cardinality({j \in idx : j <= i}) = k

\* the elements of seq at the positions idx, in their order in seq
RestrictTo(seq, idx) == [k \in 1..Cardinality(idx) |-> seq[KthOf(idx, k)]]

\* C1: fetch_bilibili_subtitle_text never raises; it returns a code among
\* 0, 1, 2, 3, 99; whenever a stage raises (a service-level error of the
\* metadata lookup or of endpoint (a) included) the result is 99 and no
\* request follows the one that raised; every result with a code other than
\* 0 has empty text and empty lang.
C1_NeverRaises ==
    /\ ~escaped
    /\ (pc = "done") = result.returned
    /\ result.returned => result.code \in {0, 1, 2, 3, 99}
    /\ fault # "" =>
          /\ result.returned /\ result.code = 99
          /\ LET last == calls[Len(calls)]
             IN  /\ fault \in {"view: transport", "view: service",
                               "view: malformed"} => last = "view"
                 /\ fault \in {"web: transport", "web: service"} => last = "web"
                 /\ fault = "v2: transport" => last = "v2"
                 /\ fault = "dmview: transport" => last = "dmview"
                 /\ fault = "payload: transport" => last = "payload"
    /\ (result.returned /\ result.code # 0) =>
          result.text = <<>> /\ result.lang = <<>>

C1_Witness ==
    /\ fault = "web: service"
    /\ result = Ret(99, <<>>, <<>>)
    /\ calls[Len(calls)] = "web"

\* C2: the endpoints are asked in the order (a), (b), (c), each only if every
\* earlier one listed nothing usable; the track list handed to selection is
\* the list of the last one asked alone, without its URL-less entries; a
\* service-level error of (b) or (c) counts as an empty list and the request
\* goes on; three empty lists give status 1 with empty text and lang.
C2_FirstNonEmptyEndpoint ==
    LET n == Len(responses)
        m == Len(ListCalls)
    IN  /\ m <= 3 /\ ListCalls = SubSeq(ListEndpoints, 1, m)
        /\ n \in {m, m - 1}
        /\ \A i \in 1..n : responses[i].ep = ListEndpoints[i]
        /\ \A i \in 1..n : ~responses[i].ok => i > 1
        /\ \A i \in 2..m : \A j \in 1..(i - 1) : Usable(responses[j]) = <<>>
        /\ (n >= 1 /\ ~responses[n].ok) =>
              \/ pc \in {"dmview", "select"}
              \/ pc = "done" /\ (result.code = 1 \/ fault = "dmview: transport")
        /\ (pc \in {"select", "download"} \/ (pc = "done" /\ fault = "")) =>
              /\ n >= 1 /\ n = m
              /\ n < 3 => Usable(responses[n]) # <<>>
              /\ LET u == Usable(responses[n])
                 IN  /\ Len(subs) = Len(u)
                     /\ \A k \in 1..Len(u) :
                           /\ subs[k].url \in {u[k].url, u[k].subtitle_url} \ {""}
                           /\ subs[k].lan \in {u[k].lan, u[k].lang_key}
                           /\ u[k].lan # <<>> => subs[k].lan = u[k].lan
                     /\ (pc = "done" /\ u = <<>>) => result = Ret(1, <<>>, <<>>)
                     /\ (pc = "done" /\ u # <<>>) => result.code # 1

C2_Witness ==
    /\ Len(responses) = 3
    /\ responses[1].items # <<>>
    /\ ~responses[2].ok
    /\ Len(subs) = 2
    /\ result.returned /\ result.code = 0

\* the positions of the tracks a whitelist admits: the language code equals
\* an entry, or starts with an entry that ends with "-"
WhitelistAdmits(tracks, wl) ==
    { i \in 1..Len(tracks) :
        \E k \in 1..Len(wl) :
            LET lan == tracks[i].lan
                w == wl[k]
            IN  \/ lan = w
                \/ /\ w # <<>> /\ w[Len(w)] = "-"
                   /\ Len(w) <= Len(lan)
                   /\ \A j \in 1..Len(w) : lan[j] = w[j] }

\* the whitelist rule of C3 for the calls in which `supplied` holds
WhitelistRules(supplied) ==
    (supplied /\ subs # <<>> /\ pc \in {"download", "done"}) =>
        LET idx == WhitelistAdmits(subs, whitelist.list)
        IN  /\ mode = "whitelist"
            /\ picked = ""
            /\ idx = {} => selected = <<>> /\ result = Ret(2, <<>>, <<>>)
            /\ idx # {} => /\ selected = RestrictTo(subs, idx)
                           /\ result.returned => result.code \in {0, 99}

\* C3 as stated: whenever a whitelist is supplied (an empty list included)
\* and the track list is non-empty, the whitelist alone selects, the priority
\* order is never consulted, and no match gives status 2.
C3_AnyWhitelistOverrides == WhitelistRules(whitelist.given)

\* C3 as amended: whenever a non-empty whitelist is supplied and the track
\* list is non-empty, the whitelist alone selects: the selection is exactly
\* the admitted tracks in enumeration order, the priority order is never
\* consulted, and no match gives status 2.
C3_NonEmptyWhitelistOverrides ==
    WhitelistRules(whitelist.given /\ whitelist.list # <<>>)

C3_Witness ==
    /\ whitelist.list = <<Lan_AIzh, Lan_enUS>>
    /\ Len(subs) = 2 /\ subs[1].lan = Lan_enUS /\ subs[2].lan = Lan_AIzh
    /\ selected = subs
    /\ result.returned /\ result.code = 0

\* the priority order select_by_priority is given by the entry point
ClaimedPriority ==
    IF lang_priority.given /\ lang_priority.list # <<>> THEN lang_priority.list
    ELSE <<"en", "zh", "other">>

\* the positions of the tracks of category c
InCategory(tracks, c) ==
    {i \in 1..Len(tracks) : categorize_language(tracks[i].lan) = c}

\* C4: select_by_priority returns the whole bucket of the first category of
\* the priority order that has a track, skipping empty and unknown
\* categories; a returned selection never mixes categories; every language
\* code has one category among en, zh, other, whatever its letter case.
C4_FirstNonEmptyBucket ==
    LET cat == [i \in 1..Len(subs) |-> categorize_language(subs[i].lan)]
        of(c) == {i \in 1..Len(subs) : cat[i] = c}
    IN  /\ pc = "select" =>      \* the list as it reaches the selector
              \A i \in 1..Len(subs) :
                  /\ cat[i] \in {"en", "zh", "other"}
                  /\ cat[i] = categorize_language(Lower(subs[i].lan))
        /\ mode = "priority" =>
              LET prio == ClaimedPriority
                  hits == {k \in 1..Len(prio) : of(prio[k]) # {}}
              IN  /\ hits = {} => selected = <<>> /\ picked = ""
                  /\ hits # {} =>
                        /\ picked = prio[KthOf(hits, 1)]
                        /\ selected = RestrictTo(subs, of(picked))
                  /\ \A a, b \in 1..Len(selected) :
                        categorize_language(selected[a].lan)
                            = categorize_language(selected[b].lan)

C4_Witness ==
    /\ mode = "priority"
    /\ lang_priority.list = <<"zh", "en", "other">>
    /\ Len(subs) = 2 /\ subs[1].lan = <<"e", "n", "g">> /\ subs[2].lan = Lan_enUS
    /\ picked = "en"
    /\ selected = <<subs[2]>>

\* C5: at most one subtitle payload is requested per call: exactly one when
\* the result is status 0, the payload of the first track of the selection,
\* whose language code is the returned lang; none when the result is status
\* 1, 2 or 3.
C5_OnePayload ==
    /\ Len(downloads) <= 1
    /\ Len(SelectSeq(calls, LAMBDA c : c = "payload")) = Len(downloads)
    /\ (result.returned /\ result.code = 0) =>
          /\ selected # <<>>
          /\ downloads = <<selected[1].url>>
          /\ result.lang = selected[1].lan
    /\ (result.returned /\ result.code \in {1, 2, 3}) => downloads = <<>>

C5_Witness ==
    /\ result.returned /\ result.code = 0
    /\ Len(selected) = 2
    /\ selected[1].url # selected[2].url
    /\ downloads = <<selected[1].url>>

\* the effective priority order names no category that has a track
NoNamedCategoryHasTrack ==
    \A k \in 1..Len(ClaimedPriority) : InCategory(subs, ClaimedPriority[k]) = {}

\* C10: in priority mode (no whitelist, or an empty one) with a non-empty
\* track list the result is status 3 exactly when no category named in the
\* effective priority order has a track; with the priority order absent or
\* empty, or naming all of en, zh and other, status 3 is never returned.
C10_Status3 ==
    (~(whitelist.given /\ whitelist.list # <<>>) /\ subs # <<>>) =>
        /\ pc = "done" => ((result.code = 3) = NoNamedCategoryHasTrack)
        /\ pc = "download" => ~NoNamedCategoryHasTrack
        /\ ( \/ ~(lang_priority.given /\ lang_priority.list # <<>>)
             \/ {"en", "zh", "other"} \subseteq
                   {lang_priority.list[k] : k \in 1..Len(lang_priority.list)} )
           => ~(result.returned /\ result.code = 3)

C10_Witness ==
    /\ whitelist = Given(<<>>)
    /\ lang_priority.list = <<"zh">>
    /\ Len(subs) = 2
    /\ result = Ret(3, <<>>, <<>>)

\* m is the leftmost match of "BV" + one or more alphanumerics in s, taken
\* as long as it goes
IsLeftmostMaximalBv(s, m) ==
    \E i \in 1..Len(s) :
        LET e == i + Len(m) - 1
        IN  /\ Len(m) >= 3 /\ e <= Len(s)
            /\ SubSeq(s, i, e) = m
            /\ m[1] = "B" /\ m[2] = "V"
            /\ \A k \in 3..Len(m) : m[k] \in Alnum
            /\ e = Len(s) \/ s[e + 1] \notin Alnum
            /\ \A j \in 1..(i - 1) :
                  ~(s[j] = "B" /\ s[j + 1] = "V" /\ s[j + 2] \in Alnum)

\* s holds "BV" followed by an alphanumeric character somewhere
HoldsBv(s) ==
    \E i \in 1..(Len(s) - 2) : s[i] = "B" /\ s[i + 1] = "V" /\ s[i + 2] \in Alnum

\* C6: for an input that holds a BV match parse_input_to_bvid returns the
\* leftmost, maximal match and issues no request, short-link domain or not;
\* the short-link GET is attempted only for an input without a BV match, and
\* a failure of that GET is swallowed: the trimmed input is returned.
C6_BvFirst ==
    /\ Len(calls) <= 1
    /\ HoldsBv(video_url) =>
          /\ calls = <<>>
          /\ pc = "view" => IsLeftmostMaximalBv(video_url, bvid)
    /\ calls # <<>> => ~HoldsBv(video_url)
    /\ swallowed => pc = "view" /\ bvid = Strip(video_url)

C6_Witness ==
    /\ pc = "view"
    /\ IsShortLink(Strip(video_url))
    /\ HoldsBv(video_url)
    /\ bvid = <<"B", "V", "1", "x">>
    /\ calls = <<>>

\* C7: for a short-link input without a BV match and without a scheme, the
\* URL handed to the GET begins with "https://".
C7_BareLinkGetsHttps ==
    ( /\ ~HoldsBv(video_url)
      /\ IsShortLink(Strip(video_url))
      /\ ~HasScheme(Strip(video_url)) )
    => \A k \in 1..Len(get_urls) : StartsWith(get_urls[k], HttpsPrefix)

\* the entries of a body whose trimmed text is not empty
Spoken(b) == {i \in 1..Len(b) : Strip(b[i].content) # <<>>}

\* C8: json_subtitle_to_srt emits one block per entry whose trimmed text is
\* non-empty, in the original order, numbered 1..N without gaps; an entry
\* with blank text emits nothing and takes no number.
C8_ContiguousIndices ==
    srt.returned =>
        LET kept == RestrictTo(body, Spoken(body))
        IN  /\ Len(srt_lines) = 4 * Len(kept)
            /\ \A k \in 1..Len(kept) :
                  /\ srt_lines[4 * k - 3] = IntToStr(k)
                  /\ srt_lines[4 * k - 2]
                        = fmt_time(kept[k].from) \o <<" ", "-", "-", ">", " ">>
                            \o fmt_time(kept[k].to)
                  /\ srt_lines[4 * k - 1] = Strip(kept[k].content)
                  /\ srt_lines[4 * k] = <<>>
            /\ srt.text = Join(srt_lines, <<"\n">>)

C8_Witness ==
    /\ srt.returned
    /\ Len(body) = 3
    /\ Spoken(body) = {1, 3}
    /\ Len(srt_lines) = 8
    /\ srt_lines[5] = <<"2">>

\* the three decimal digits of a number in 0..999
ThreeDigits(n) ==
    LET d == <<"0", "1", "2", "3", "4", "5", "6", "7", "8", "9">>
    IN  <<d[(n \div 100) + 1], d[((n \div 10) % 10) + 1], d[(n % 10) + 1]>>

\* C9: for a time t >= 0 the formatter yields HH:MM:SS,mmm: hours =
\* floor(t / 3600), minutes = floor(t / 60) mod 60, seconds = floor(t) mod 60
\* and milliseconds = round(fraction * 1000), a value in 0..999 written with
\* exactly three digits.
C9_ThreeDigitMillis ==
    stamp.returned =>
        LET whole == t \div TicksPerSec
            ms == RoundHalfEven((t % TicksPerSec) * 1000, TicksPerSec)
        IN  /\ ms \in 0..999
            /\ stamp.text
                  = ZeroPad(IntToStr(whole \div 3600), 2) \o <<":">>
                    \o ZeroPad(IntToStr((whole \div 60) % 60), 2) \o <<":">>
                    \o ZeroPad(IntToStr(whole % 60), 2) \o <<",">>
                    \o ThreeDigits(ms)

====
